---- MODULE Spec2Model ----
(***************************************************************************)
(* Conduit: supervision of the lnd child process (core/conduit.go, final   *)
(* revision at lines 32-162), the program entry point (cmd/conduit main)   *)
(* and the shutdown interceptor they share.                                *)
(*                                                                         *)
(* Threads of control: the main goroutine (main -> Main -> startLnd), the  *)
(* drain goroutine (parseLndLog), the child process and the environment   *)
(* that requests shutdown.                                                 *)
(***************************************************************************)
EXTENDS Integers, Sequences, FiniteSets, TLC

\* ------------------------------------------------------------------ bounds
MaxLines == 2      \* lines the child writes to its stdout in one run
MaxRequests == 2   \* calls of RequestShutdown in one run
MaxLogCalls == 2   \* records written through the loggers in one run
MaxFiles == 3      \* numbered names of a path that may already exist
MaxRounds == 101   \* rounds of the loop of UniqueFileName that are followed

\* --------------------------------------------------------------- constants
ErrLndNotFound == "lnd command not found. Please install lnd to use conduit"
ErrLndVersion == "lnd --version called. Gracefully exiting now..."

VARIABLES
    cfg,            \* *Config: the fields startLnd reads
    prog,           \* the conduit process: "running" | "exited"
    exitStatus,     \* its exit status once exited, -1 before
    mainPc,         \* position of the main goroutine in main/Main/startLnd
    startRet,       \* error returned by startLnd, "none" before it returns
    mainRet,        \* error returned by Main, "none" before it returns
    wgMain,         \* counter of Main's `var wg sync.WaitGroup`
    wgStart,        \* counter of startLnd's by-value parameter wg
    wgDrain,        \* counter of parseLndLog's by-value parameter wg
    child,          \* the lnd process: "none" | "running" | "exited"
    childStatus,    \* its exit status once exited, -1 before
    written,        \* number of lines the child has written
    pipe,           \* lines in the stdout pipe, not yet read
    readEnd,        \* parent's read end: "none" | "open" | "closed"
    scanBuf,        \* lines buffered inside the bufio.Scanner
    cur,            \* scan.Text(): the token of the last successful Scan
    drainPc,        \* position of the parseLndLog goroutine
    sink,           \* records forwarded to the zerolog sink by parseLndLog
    fatalLogs,      \* log.Fatal() records written by Main/startLnd
    echoPc,         \* position of the version-echo goroutine
    stdout,         \* lines echoed to standard output
    shutdownState,  \* ShutdownSignal: "Idle" | "Requested"
    reqCalls,       \* calls of RequestShutdown so far
    fireCount,      \* Idle -> Requested transitions so far
    hist,           \* observations of the run (history record)
    logw,           \* core/log.go: the logger, its outputs and its calls
    conf,           \* core/config.go: config.yaml, the flags and InitConfig
    uniq,           \* utils/general.go: the files and UniqueFileName's loop
    tagc            \* core/config.go: a Config and GetConfigTagValues' result

vars == <<cfg, prog, exitStatus, mainPc, startRet, mainRet, wgMain, wgStart,
          wgDrain, child, childStatus, written, pipe, readEnd, scanBuf, cur,
          drainPc, sink, fatalLogs, echoPc, stdout, shutdownState, reqCalls,
          fireCount, hist, logw, conf, uniq, tagc>>

\* the state of the library functions, which no step of the supervision
\* touches, and the state of the supervision
libVars == <<logw, conf, uniq, tagc>>
supVars == <<cfg, prog, exitStatus, mainPc, startRet, mainRet, wgMain,
             wgStart, wgDrain, child, childStatus, written, pipe, readEnd,
             scanBuf, cur, drainPc, sink, fatalLogs, echoPc, stdout,
             shutdownState, reqCalls, fireCount, hist>>

mainVars == <<mainPc, startRet, mainRet, wgMain, wgStart>>
childVars == <<child, childStatus, written>>
shutVars == <<shutdownState, reqCalls, fireCount>>
echoVars == <<echoPc, stdout>>

\* ------------------------------------------------------------------- lines
NoLine == [shape |-> "none", lvl |-> "", sub |-> "", text |-> ""]

LogLine(lvl, sub, text) == [shape |-> "log", lvl |-> lvl, sub |-> sub, text |-> text]

GarbageLine == [shape |-> "garbage", lvl |-> "", sub |-> "", text |-> "garbage line"]

\* the empty string
EmptyLine == [shape |-> "empty", lvl |-> "", sub |-> "", text |-> ""]

\* "<date> <time> INF RPCS: started": the level code without its brackets
NoBracketLine == [shape |-> "nobracket", lvl |-> "INF", sub |-> "RPCS", text |-> "started"]

\* "<date> <time> [INF] RPCS: " cut after the subsystem: no text follows
TruncatedLine == LogLine("INF", "RPCS", "")

\* what the child may print: an INF line, a CRT line, a line with an
\* unrecognised bracket content, and a line outside the grammar
ChildLines ==
    { LogLine("INF", "RPCS", "started"),
      LogLine("CRT", "LTND", "failed"),
      LogLine("XXX", "RPCS", "odd"),
      GarbageLine,
      LogLine("TRC", "PEER", "ping"),
      LogLine("DBG", "BTCN", "block"),
      LogLine("ERR", "HSWC", "no route"),
      LogLine("WRN", "CHDB", "slow"),
      LogLine("inf", "RPCS", "started"),
      EmptyLine,
      NoBracketLine,
      TruncatedLine }

LevelCodes == {"INF", "TRC", "DBG", "ERR", "WRN", "CRT"}

\* re.FindStringSubmatch(line) for lndLogRegex: the captures, <<>> on no match
lndLogRegexAnyCase(line) ==
    IF line.shape = "log" /\ line.lvl \in (LevelCodes \cup {"inf"}) /\ line.text # ""
    THEN <<line, line.lvl, line.sub, line.text>>
    ELSE <<>>

lndLogRegexAnyBracket(line) ==
    IF line.shape = "log" /\ line.text # ""
    THEN <<line, line.lvl, line.sub, line.text>>
    ELSE <<>>

lndLogRegex(line) ==
    IF line.shape = "log" /\ line.lvl \in LevelCodes /\ line.text # ""
    THEN <<line, line.lvl, line.sub, line.text>>
    ELSE <<>>

\* the switch on logLvl: the zerolog level of the record
LogLvlSwitchWarnAsError(logLvl) ==
    CASE logLvl = "INF" -> "info"
      [] logLvl = "TRC" -> "trace"
      [] logLvl = "DBG" -> "debug"
      [] logLvl = "ERR" -> "error"
      [] logLvl = "WRN" -> "error"
      [] logLvl = "CRT" -> "fatal"
      [] OTHER -> "error"

LogLvlSwitch(logLvl) ==
    CASE logLvl = "INF" -> "info"
      [] logLvl = "TRC" -> "trace"
      [] logLvl = "DBG" -> "debug"
      [] logLvl = "ERR" -> "error"
      [] logLvl = "WRN" -> "warn"
      [] logLvl = "CRT" -> "fatal"
      [] OTHER -> "error"

\* the record parseLndLog hands to the sink for a matched line
Record(captures) ==
    IF captures[2] \in LevelCodes
    THEN [process |-> "LND", level |-> LogLvlSwitch(captures[2]),
          subsystem |-> captures[3], message |-> captures[4]]
    ELSE [process |-> "LND", level |-> "error", subsystem |-> "",
          message |-> "Unkown LND log level"]

\* zerolog: an event started with Logger.Fatal() calls os.Exit(1) in Msg
FatalExits(level) == level = "fatal"

\* --------------------------------------------------------- shutdown signal
fired == shutdownState # "Idle"

\* `<-shutdownChan` on the broadcast channel: ready exactly when it fired
ChanReady(f) == f

\* state of the notification after a receive: a fired notification is not
\* consumed by the read
ChanRecvConsumes(f) == "Idle"

ChanRecv(state) == state

\* the select of parseLndLog: the shutdown case when the channel is ready,
\* the default case otherwise
SelectShutdownNever(f) == "default"

SelectShutdown(f) == IF ChanReady(f) THEN "return" ELSE "default"


\* =============================================================== core/log.go
\* level names and messages passed to LogWithErrors, subsystems passed to
\* NewSubLogger, levels written through the logger's own methods
LevelNames == {"INFO", "PANIC", "FATAL", "ERROR", "DEBUG", "TRACE",
               "WARN", "TEST", "info"}
Msgs == {"m1", "m2"}
Subsystems == {"TEST", "LND"}
MethodLevels == {"trace", "debug", "info", "warn", "error", "fatal"}

\* log_level: the level names LogWithErrors knows and their zerolog levels
log_levelNoFatal ==
    ("INFO" :> "info") @@ ("PANIC" :> "panic") @@ ("ERROR" :> "error")
        @@ ("DEBUG" :> "debug") @@ ("TRACE" :> "trace")

log_level ==
    ("INFO" :> "info") @@ ("PANIC" :> "panic") @@ ("FATAL" :> "fatal")
        @@ ("ERROR" :> "error") @@ ("DEBUG" :> "debug") @@ ("TRACE" :> "trace")

\* zerolog.Logger.WithLevel: the event is written at the level given and,
\* unlike the events of the Fatal and Panic methods, ends nothing
WithLevelEnds(lvl) == FALSE

\* InitLogger: the writers behind the logger, zerolog.MultiLevelWriter(output,
\* log_file) when config.ConsoleOutput and log_file alone otherwise
LoggerWritersConsoleOnly(consoleOutput) ==
    IF consoleOutput THEN {"console"} ELSE {"file"}

LoggerWriters(consoleOutput) ==
    IF consoleOutput THEN {"console", "file"} ELSE {"file"}

\* the state before InitLogger: config.ConsoleOutput and whether the log file
\* in config.ConduitDir can be opened
LogStart(consoleOutput, openFile) ==
    [ConsoleOutput |-> consoleOutput, openFile |-> openFile,
     logger |-> "none", writers |-> {}, subs |-> <<>>, file |-> <<>>,
     console |-> <<>>, calls |-> <<>>, alive |-> TRUE]

\* ============================================================ core/config.go
\* default_dir(): utils.AppDataDir("conduit", false)
default_dir == "AppDataDir/conduit"

\* &Config{}: every field at its zero value
ZeroConfig ==
    [DefaultDir |-> FALSE, ConduitDir |-> "", ConsoleOutput |-> FALSE,
     ShowVersion |-> FALSE, LndShowVersion |-> FALSE, LndDataDir |-> ""]

\* default_config()
default_configQuiet ==
    [ZeroConfig EXCEPT !.DefaultDir = TRUE, !.ConduitDir = default_dir]

default_config ==
    [ZeroConfig EXCEPT !.DefaultDir = TRUE, !.ConduitDir = default_dir,
                       !.ConsoleOutput = TRUE]

\* the key under which yaml.Unmarshal looks a field up: its yaml tag, or the
\* lower-cased field name when it has none
YamlKey(field) ==
    CASE field = "DefaultDir" -> "DefaultDir"
      [] field = "ConduitDir" -> "ConduitDir"
      [] field = "ConsoleOutput" -> "ConsoleOutput"
      [] field = "ShowVersion" -> "showversion"
      [] field = "LndShowVersion" -> "lndshowversion"
      [] field = "LndDataDir" -> "lnddatadir"

\* the documents config.yaml may hold when it parses: a mapping that sets
\* any of the fields and may carry keys that are no field of Config
YamlEntry(key, values) == {<<>>} \cup {key :> v : v \in values}

YamlDocs ==
    {a @@ b @@ c @@ d @@ e @@ f :
        a \in YamlEntry("DefaultDir", BOOLEAN),
        b \in YamlEntry("ConduitDir", {"", "/custom"}),
        c \in YamlEntry("ConsoleOutput", BOOLEAN),
        d \in YamlEntry("showversion", BOOLEAN),
        e \in YamlEntry("lnddatadir", {"/data"}),
        f \in YamlEntry("LogFileDir", {"/logs"})}

\* yaml.Unmarshal(config_file, config): the fields the document sets take its
\* values, the others keep theirs, keys without a field are skipped
Unmarshal(doc, config) ==
    [field \in DOMAIN config |->
        IF YamlKey(field) \in DOMAIN doc
        THEN doc[YamlKey(field)]
        ELSE config[field]]

\* check_yaml_config: a blank ConduitDir becomes default_dir() and DefaultDir
\* becomes true
check_yaml_configKeepsDir(config) == config

check_yaml_config(config) ==
    IF config.ConduitDir = ""
    THEN [config EXCEPT !.ConduitDir = default_dir, !.DefaultDir = TRUE]
    ELSE config

\* os.Stat on the path of a file in the given condition
Stat(file) ==
    CASE file = "absent" -> "ENOENT"
      [] file = "denied" -> "EACCES"
      [] OTHER -> "nil"   \* "present", "unreadable", "malformed", "parsed"

\* FileExists: false only when Stat fails with a not-exist error
FileExists(stat) == stat # "ENOENT"

\* ioutil.ReadFile fails on a file that cannot be opened or read
ReadFileFails(file) == file \in {"denied", "unreadable"}

\* the command lines flags.Parse sees
FlagArgs == {"none", "version", "lnd-version", "unknown"}

\* flags.Parse(config): the flags given overwrite their fields
flagsParse(args, config) ==
    CASE args = "version" -> [config EXCEPT !.ShowVersion = TRUE]
      [] args = "lnd-version" -> [config EXCEPT !.LndShowVersion = TRUE]
      [] OTHER -> config

\* the state before InitConfig(isTesting)
ConfStart(dir, file, doc, isTesting, args) ==
    [dir |-> dir, file |-> file, doc |-> doc, isTesting |-> isTesting,
     args |-> args, pc |-> "InitConfig", config |-> ZeroConfig,
     isNil |-> TRUE, err |-> "none", exit |-> -1]

\* the library state of a run that does not call into it again
LogIdle == LogStart(TRUE, "ok")
ConfIdle == ConfStart("present", "absent", <<>>, FALSE, "none")

\* ========================================================= utils/general.go
\* strconv.Itoa
Digit(d) == <<"0", "1", "2", "3", "4", "5", "6", "7", "8", "9">>[d + 1]

RECURSIVE Itoa(_)
Itoa(n) == IF n < 10 THEN <<Digit(n)>> ELSE Itoa(n \div 10) \o <<Digit(n % 10)>>

\* filepath.Ext: the suffix from the last dot of the last element, empty when
\* that element has no dot
RECURSIVE ExtFrom(_, _)
ExtFrom(path, i) ==
    IF i = 0 \/ path[i] = "/" THEN <<>>
    ELSE IF path[i] = "." THEN SubSeq(path, i, Len(path))
    ELSE ExtFrom(path, i - 1)

Ext(path) == ExtFrom(path, Len(path))

\* the body of the loop of UniqueFileName: the next candidate, cut off the
\* current one
NextPath(path, counter) ==
    LET ext == Ext(path)
        cut == IF counter > 1 /\ counter < 11 THEN 4
               ELSE IF counter >= 11 THEN 5
               ELSE 0
    IN SubSeq(path, 1, Len(path) - Len(ext) - cut)
          \o <<" ", "(">> \o Itoa(counter) \o <<")">> \o ext

\* the paths UniqueFileName is called with
UniquePaths == {<<"d", "/", "f", ".", "t">>, <<"f">>}

\* the numbered names of a path: stem + " (k)" + ext
Numbered(path, k) ==
    SubSeq(path, 1, Len(path) - Len(Ext(path)))
        \o <<" ", "(">> \o Itoa(k) \o <<")">> \o Ext(path)

\* the file system under the directory of the path
StatPath(u, path) ==
    IF u.denied THEN "EACCES"
    ELSE IF path \in u.exists THEN "nil"
    ELSE "ENOENT"

\* the state at the call UniqueFileName(path)
UniqStart(path, exists, denied) ==
    [arg |-> path, exists |-> exists, denied |-> denied, path |-> path,
     counter |-> 1, pc |-> "loop"]

UniqIdle == UniqStart(<<"f">>, {}, FALSE)

\* a path and its first n numbered names, and the lengths of such runs of
\* existing files that are tried
FirstNames(path, n) == {path} \cup {Numbered(path, k) : k \in 1..n}
LongRuns == {9, 10, 11, 99, MaxRounds - 1}

\* ============================================== core/config.go, lnd arguments
\* the fields of Config in the order of the struct, a few of each kind: the
\* name in its words, the `long` tag and the type
ConfigFields ==
    <<[name |-> <<"Default", "Dir">>, long |-> "defaultdir", kind |-> "bool"],
      [name |-> <<"Conduit", "Dir">>, long |-> "conduitdir", kind |-> "string"],
      [name |-> <<"Show", "Version">>, long |-> "version", kind |-> "bool"],
      [name |-> <<"Lnd", "Config", "Path">>, long |-> "configfile",
       kind |-> "string"],
      [name |-> <<"Lnd", "Show", "Version">>, long |-> "lnd-version",
       kind |-> "bool"],
      [name |-> <<"Lnd", "Sync", "Freelist">>, long |-> "sync-freelist",
       kind |-> "bool"],
      [name |-> <<"Lnd", "TLS", "Extra", "IPs">>, long |-> "tlsextraip",
       kind |-> "[]string"],
      [name |-> <<"Lnd", "Autopilot", "Heuristic">>,
       long |-> "autopilot.heuristic", kind |-> "map[string]string"],
      [name |-> <<"Enable">>, long |-> "remotesigner.enable", kind |-> "bool"]>>

\* the values a field of each type takes
ValuesOf(kind) ==
    CASE kind = "bool" -> BOOLEAN
      [] kind = "string" -> {"", "x"}
      [] kind = "[]string" -> {<<>>, <<"a">>, <<"a", "b">>}
      [] kind = "map[string]string" ->
            {<<>>, ("k1" :> "1"), ("k1" :> "1") @@ ("k2" :> "2")}

\* the configurations: one value for each field
Configs ==
    {<<a, b, c, d, e, f, g, h, i>> :
        a \in ValuesOf(ConfigFields[1].kind),
        b \in ValuesOf(ConfigFields[2].kind),
        c \in ValuesOf(ConfigFields[3].kind),
        d \in ValuesOf(ConfigFields[4].kind),
        e \in ValuesOf(ConfigFields[5].kind),
        f \in ValuesOf(ConfigFields[6].kind),
        g \in ValuesOf(ConfigFields[7].kind),
        h \in ValuesOf(ConfigFields[8].kind),
        i \in ValuesOf(ConfigFields[9].kind)}

\* strings.Contains on a field name
Contains(name, sub) ==
    \E i \in 1..(Len(name) - Len(sub) + 1) :
        SubSeq(name, i, i + Len(sub) - 1) = sub

\* the fields GetConfigTagValues emits arguments for
EmitsAnyLnd(name) == Contains(name, <<"Lnd">>)

Emits(name) ==
    Contains(name, <<"Lnd">>) /\ ~Contains(name, <<"Show", "Version">>)

\* the type switch: the arguments of one field; `order` is the order in
\* which the range over a map visits its keys
FieldTags(f, q, order) ==
    CASE f.kind = "string" ->
            IF q # "" THEN <<(<<"--", f.long, "=", q>>)>> ELSE <<>>
      [] f.kind = "[]string" ->
            [j \in 1..Len(q) |-> <<"--", f.long, "=", q[j]>>]
      [] f.kind = "bool" ->
            IF q THEN <<(<<"--", f.long>>)>> ELSE <<>>
      [] f.kind = "map[string]string" ->
            [j \in 1..Len(order) |->
                <<"--", f.long, "=", order[j], ":", q[order[j]]>>]

\* the loop over the fields, from field i on
RECURSIVE TagsFrom(_, _, _)
TagsFrom(i, c, order) ==
    IF i > Len(ConfigFields) THEN <<>>
    ELSE (IF Emits(ConfigFields[i].name)
          THEN FieldTags(ConfigFields[i], c[i], order)
          ELSE <<>>) \o TagsFrom(i + 1, c, order)

\* the orders in which a Go range may visit the keys of a map
KeyOrders(keys) ==
    {o \in [1..Cardinality(keys) -> keys] :
        \A a, b \in 1..Cardinality(keys) : o[a] = o[b] => a = b}

\* the state at the call c.GetConfigTagValues()
TagStart(c) == [config |-> c, pc |-> "call", order |-> <<>>, tags |-> <<>>]

TagIdle ==
    TagStart(<<TRUE, "x", FALSE, "", FALSE, FALSE, <<>>, <<>>, FALSE>>)

\* ------------------------------------------------------------ initial state
\* the supervision before main has called core.Main
InitSupervisor ==
    /\ cfg \in [LndShowVersion : BOOLEAN]
    /\ prog = "running"
    /\ exitStatus = -1
    /\ mainPc = "Main"
    /\ startRet = "none"
    /\ mainRet = "none"
    /\ wgMain = 0
    /\ wgStart = 0
    /\ wgDrain = 0
    /\ child = "none"
    /\ childStatus = -1
    /\ written = 0
    /\ pipe = <<>>
    /\ readEnd = "none"
    /\ scanBuf = <<>>
    /\ cur = NoLine
    /\ drainPc = "none"
    /\ sink = <<>>
    /\ fatalLogs = 0
    /\ echoPc = "none"
    /\ stdout = <<>>
    /\ shutdownState = "Idle"
    /\ reqCalls = 0
    /\ fireCount = 0
    /\ hist = [spawns |-> 0, drainStarts |-> 0, exitAfterShutdown |-> "none",
               childAtStartReturn |-> "none", fwdAfterShutdown |-> 0,
               fwdAfterReturn |-> 0, lastCheckFired |-> FALSE,
               lookPath |-> "none", waitResult |-> "none", exitBy |-> "none",
               fatal |-> "none", starts |-> 0, wrote |-> <<>>,
               processed |-> <<>>, fwdLines |-> <<>>,
               readsAfterFired |-> 0, curAfterFired |-> FALSE]

Init ==
    /\ InitSupervisor
    /\ logw = LogIdle
    /\ conf = ConfIdle
    /\ uniq = UniqIdle
    /\ tagc = TagIdle

\* ------------------------------------------------------ ShutdownSignal (4.1)
\* RequestShutdown(): only the first call fires the notification; every call
\* returns without blocking
RequestShutdown ==
    /\ prog = "running"
    /\ reqCalls < MaxRequests
    /\ reqCalls' = reqCalls + 1
    /\ IF shutdownState = "Idle"
       THEN shutdownState' = "Requested" /\ fireCount' = fireCount + 1
       ELSE UNCHANGED <<shutdownState, fireCount>>
    /\ UNCHANGED <<cfg, libVars, prog, exitStatus, mainVars, wgDrain, childVars, pipe,
                   readEnd, scanBuf, cur, drainPc, sink, fatalLogs, echoVars,
                   hist>>

\* ------------------------------------------------------------ main goroutine
\* cmd.Wait() returns once the child process has exited
cmdWaitNoWait(c) == TRUE

cmdWait(c) == c = "exited"

\* Main, lines 97-103: the ErrLndVersion sentinel becomes `return nil`, any
\* other error is returned
MainResultNoSentinel(err) == "err"

MainResult(err) == IF err = ErrLndVersion THEN "nil" ELSE "err"

\* startLnd, line 139: the version query ends startLnd with a return; it does
\* not go on to start the long-running child
AfterVersionFallThrough == "stdoutPipe"

AfterVersion == "returned"

\* startLnd logs with log.Fatal().Msg before each error return; when the
\* event exits the process the return and Main's error branch (lines 97-100:
\* wrap, log.Fatal again, return err) are never reached
FailWith(e) ==
    IF FatalExits("fatal")
    THEN /\ fatalLogs' = fatalLogs + 1
         /\ prog' = "exited"
         /\ exitStatus' = 1
         /\ UNCHANGED <<mainPc, startRet, mainRet>>
    ELSE /\ fatalLogs' = fatalLogs + 2
         /\ startRet' = e
         /\ mainRet' = MainResult(e)
         /\ mainPc' = "returned"
         /\ UNCHANGED <<prog, exitStatus>>

\* Main: `var wg sync.WaitGroup` and the call startLnd(cfg, wg, ...), which
\* copies the WaitGroup into startLnd's parameter
Main ==
    /\ prog = "running"
    /\ mainPc = "Main"
    /\ wgStart' = wgMain
    /\ mainPc' = "lookPath"
    /\ UNCHANGED <<cfg, libVars, prog, exitStatus, startRet, mainRet, wgMain, wgDrain,
                   childVars, pipe, readEnd, scanBuf, cur, drainPc, sink,
                   fatalLogs, echoVars, shutVars, hist>>

\* startLnd: exec.LookPath("lnd") and the branch on cfg.LndShowVersion
startLnd_LookPath ==
    /\ prog = "running"
    /\ mainPc = "lookPath"
    /\ \E found \in BOOLEAN :
          /\ hist' = [hist EXCEPT !.lookPath = IF found THEN "found" ELSE "notfound",
                                  !.fatal = IF found THEN @ ELSE "notfound"]
          /\ IF found
             THEN /\ mainPc' = IF cfg.LndShowVersion THEN "vStdoutPipe" ELSE "stdoutPipe"
                  /\ UNCHANGED <<prog, exitStatus, startRet, mainRet, fatalLogs>>
             ELSE FailWith(ErrLndNotFound)
    /\ UNCHANGED <<cfg, libVars, wgMain, wgStart, wgDrain, childVars, pipe, readEnd,
                   scanBuf, cur, drainPc, sink, echoVars, shutVars>>

\* startLnd: exec.Command(...) and cmd.StdoutPipe() of the long-running child
startLnd_StdoutPipe ==
    /\ prog = "running"
    /\ mainPc = "stdoutPipe"
    /\ \E ok \in BOOLEAN :
          IF ok
          THEN /\ readEnd' = "open"
               /\ mainPc' = "goParseLndLog"
               /\ UNCHANGED <<prog, exitStatus, startRet, mainRet, fatalLogs,
                              hist>>
          ELSE /\ FailWith("pipe error")
               /\ hist' = [hist EXCEPT !.fatal = "pipe"]
               /\ UNCHANGED readEnd
    /\ UNCHANGED <<cfg, libVars, wgMain, wgStart, wgDrain, childVars, pipe, scanBuf,
                   cur, drainPc, sink, echoVars, shutVars>>

\* startLnd: scanner, regexp, wg.Add(1) on startLnd's copy, and
\* `go parseLndLog(scanner, log, re, shutdownChan, wg)`, which copies the
\* WaitGroup once more
startLnd_goParseLndLogAddAfter ==
    /\ prog = "running"
    /\ mainPc = "goParseLndLog"
    /\ wgStart' = wgStart + 1
    /\ wgDrain' = wgStart
    /\ drainPc' = "scan"
    /\ hist' = [hist EXCEPT !.drainStarts = @ + 1]
    /\ mainPc' = "cmdStart"
    /\ UNCHANGED <<cfg, libVars, prog, exitStatus, startRet, mainRet, wgMain,
                   childVars, pipe, readEnd, scanBuf, cur, sink, fatalLogs,
                   echoVars, shutVars>>

startLnd_goParseLndLog ==
    /\ prog = "running"
    /\ mainPc = "goParseLndLog"
    /\ wgStart' = wgStart + 1
    /\ wgDrain' = wgStart + 1
    /\ drainPc' = "scan"
    /\ hist' = [hist EXCEPT !.drainStarts = @ + 1]
    /\ mainPc' = "cmdStart"
    /\ UNCHANGED <<cfg, libVars, prog, exitStatus, startRet, mainRet, wgMain,
                   childVars, pipe, readEnd, scanBuf, cur, sink, fatalLogs,
                   echoVars, shutVars>>

\* startLnd: cmd.Start() of the long-running child; a failed Start closes
\* the pipe
startLnd_cmdStart ==
    /\ prog = "running"
    /\ mainPc = "cmdStart"
    /\ \E ok \in BOOLEAN :
          IF ok
          THEN /\ child' = "running"
               /\ hist' = [hist EXCEPT !.spawns = @ + 1, !.starts = @ + 1]
               /\ mainPc' = "cmdWait"
               /\ UNCHANGED <<prog, exitStatus, startRet, mainRet, fatalLogs,
                              readEnd>>
          ELSE /\ readEnd' = "closed"
               /\ FailWith("start error")
               /\ hist' = [hist EXCEPT !.fatal = "start", !.starts = @ + 1]
               /\ UNCHANGED child
    /\ UNCHANGED <<cfg, libVars, wgMain, wgStart, wgDrain, childStatus, written, pipe,
                   scanBuf, cur, drainPc, sink, echoVars, shutVars>>

\* startLnd: cmd.Wait() blocks until the child has exited, closes the read
\* end of the pipe, and reports a non-zero exit as an error; a nil result
\* returns (scanner, nil) to Main, which goes on to line 104
startLnd_cmdWait ==
    /\ prog = "running"
    /\ mainPc = "cmdWait"
    /\ cmdWait(child)
    /\ readEnd' = "closed"
    /\ IF childStatus # 0
       THEN /\ FailWith("exit status 1")
            /\ hist' = [hist EXCEPT !.waitResult = "err", !.fatal = "wait"]
       ELSE /\ startRet' = "nil"
            /\ mainPc' = "ShutdownChannel"
            /\ hist' = [hist EXCEPT !.waitResult = "nil",
                                    !.childAtStartReturn = child]
            /\ UNCHANGED <<prog, exitStatus, mainRet, fatalLogs>>
    /\ UNCHANGED <<cfg, libVars, wgMain, wgStart, wgDrain, childVars, pipe, scanBuf,
                   cur, drainPc, sink, echoVars, shutVars>>

\* Main: <-shutdownInterceptor.ShutdownChannel()
Main_ShutdownChannelNoWait ==
    /\ prog = "running"
    /\ mainPc = "ShutdownChannel"
    /\ mainPc' = "wgWait"
    /\ UNCHANGED <<cfg, libVars, prog, exitStatus, startRet, mainRet, wgMain,
                   wgStart, wgDrain, childVars, pipe, readEnd, scanBuf, cur,
                   drainPc, sink, fatalLogs, echoVars, shutVars, hist>>

Main_ShutdownChannel ==
    /\ prog = "running"
    /\ mainPc = "ShutdownChannel"
    /\ ChanReady(fired)
    /\ shutdownState' = ChanRecv(shutdownState)
    /\ mainPc' = "wgWait"
    /\ UNCHANGED <<cfg, libVars, prog, exitStatus, startRet, mainRet, wgMain, wgStart,
                   wgDrain, childVars, pipe, readEnd, scanBuf, cur, drainPc,
                   sink, fatalLogs, echoVars, reqCalls, fireCount, hist>>

\* Main: wg.Wait() on Main's own WaitGroup, then return nil
Main_wgWait ==
    /\ prog = "running"
    /\ mainPc = "wgWait"
    /\ wgMain = 0
    /\ mainRet' = "nil"
    /\ mainPc' = "returned"
    /\ UNCHANGED <<cfg, libVars, prog, exitStatus, startRet, wgMain, wgStart, wgDrain,
                   childVars, pipe, readEnd, scanBuf, cur, drainPc, sink,
                   fatalLogs, echoVars, shutVars, hist>>

\* main: os.Exit(1) when core.Main returned an error, otherwise main returns
\* and the process ends with status 0
main ==
    /\ prog = "running"
    /\ mainPc = "returned"
    /\ prog' = "exited"
    /\ exitStatus' = IF mainRet # "nil" THEN 1 ELSE 0
    /\ hist' = [hist EXCEPT !.exitBy = "main"]
    /\ UNCHANGED <<cfg, libVars, mainVars, wgDrain, childVars, pipe, readEnd, scanBuf,
                   cur, drainPc, sink, fatalLogs, echoVars, shutVars>>


\* ------------------------------------------------- version query (117-140)
\* startLnd: exec.Command("lnd", "--version") and cmd.StdoutPipe()
startLnd_versionStdoutPipe ==
    /\ prog = "running"
    /\ mainPc = "vStdoutPipe"
    /\ \E ok \in BOOLEAN :
          IF ok
          THEN /\ readEnd' = "open"
               /\ mainPc' = "vGo"
               /\ UNCHANGED <<prog, exitStatus, startRet, mainRet, fatalLogs,
                              hist>>
          ELSE /\ FailWith("pipe error")
               /\ hist' = [hist EXCEPT !.fatal = "pipe"]
               /\ UNCHANGED readEnd
    /\ UNCHANGED <<cfg, libVars, wgMain, wgStart, wgDrain, childVars, pipe, scanBuf,
                   cur, drainPc, sink, echoVars, shutVars>>

\* startLnd: scanner and the `go func()` that echoes the first line
startLnd_versionGo ==
    /\ prog = "running"
    /\ mainPc = "vGo"
    /\ echoPc' = "scan"
    /\ mainPc' = "vStart"
    /\ UNCHANGED <<cfg, libVars, prog, exitStatus, startRet, mainRet, wgMain, wgStart,
                   wgDrain, childVars, pipe, readEnd, scanBuf, cur, drainPc,
                   sink, fatalLogs, stdout, shutVars, hist>>

\* startLnd: cmd.Start() of the version child
startLnd_versionStart ==
    /\ prog = "running"
    /\ mainPc = "vStart"
    /\ \E ok \in BOOLEAN :
          IF ok
          THEN /\ child' = "running"
               /\ hist' = [hist EXCEPT !.spawns = @ + 1, !.starts = @ + 1]
               /\ mainPc' = "vWait"
               /\ UNCHANGED <<prog, exitStatus, startRet, mainRet, fatalLogs,
                              readEnd>>
          ELSE /\ readEnd' = "closed"
               /\ FailWith("start error")
               /\ hist' = [hist EXCEPT !.fatal = "start", !.starts = @ + 1]
               /\ UNCHANGED child
    /\ UNCHANGED <<cfg, libVars, wgMain, wgStart, wgDrain, childStatus, written, pipe,
                   scanBuf, cur, drainPc, sink, echoVars, shutVars>>

\* startLnd: cmd.Wait() of the version child and `return nil, ErrLndVersion`;
\* Main turns the sentinel into `return nil` (lines 101-102)
startLnd_versionNoWait ==
    /\ prog = "running"
    /\ mainPc = "vWait"
    /\ startRet' = ErrLndVersion
    /\ mainRet' = MainResult(ErrLndVersion)
    /\ mainPc' = AfterVersion
    /\ UNCHANGED <<cfg, libVars, prog, exitStatus, fatalLogs, readEnd, hist,
                   wgMain, wgStart, wgDrain, childVars, pipe, scanBuf, cur,
                   drainPc, sink, echoVars, shutVars>>

startLnd_versionWait ==
    /\ prog = "running"
    /\ mainPc = "vWait"
    /\ cmdWait(child)
    /\ readEnd' = "closed"
    /\ IF childStatus # 0
       THEN /\ FailWith("exit status 1")
            /\ hist' = [hist EXCEPT !.waitResult = "err", !.fatal = "wait"]
       ELSE /\ startRet' = ErrLndVersion
            /\ mainRet' = MainResult(ErrLndVersion)
            /\ mainPc' = AfterVersion
            /\ hist' = [hist EXCEPT !.waitResult = "nil"]
            /\ UNCHANGED <<prog, exitStatus, fatalLogs>>
    /\ UNCHANGED <<cfg, libVars, wgMain, wgStart, wgDrain, childVars, pipe, scanBuf,
                   cur, drainPc, sink, echoVars, shutVars>>

\* ------------------------------------------------------- bufio.Scanner.Scan
\* Scan yields the next buffered line, or reads a chunk of the pipe (one or
\* more whole lines) and yields its first line
ScanTrueLastFirst ==
    \/ /\ scanBuf # <<>>
       /\ cur' = Head(scanBuf)
       /\ scanBuf' = Tail(scanBuf)
       /\ UNCHANGED pipe
    \/ /\ scanBuf = <<>>
       /\ readEnd = "open"
       /\ pipe # <<>>
       /\ \E k \in 1..Len(pipe) :
             /\ cur' = pipe[k]
             /\ scanBuf' = SubSeq(pipe, 1, k - 1)
             /\ pipe' = SubSeq(pipe, k + 1, Len(pipe))

ScanTrue ==
    \/ /\ scanBuf # <<>>
       /\ cur' = Head(scanBuf)
       /\ scanBuf' = Tail(scanBuf)
       /\ UNCHANGED pipe
    \/ /\ scanBuf = <<>>
       /\ readEnd = "open"
       /\ pipe # <<>>
       /\ \E k \in 1..Len(pipe) :
             /\ cur' = Head(pipe)
             /\ scanBuf' = SubSeq(pipe, 2, k)
             /\ pipe' = SubSeq(pipe, k + 1, Len(pipe))

\* Scan returns false when nothing is buffered and the read fails: the read
\* end was closed (by cmd.Wait or a failed cmd.Start), or the pipe is empty
\* and its write end is closed because the child has exited
ScanFalse ==
    /\ scanBuf = <<>>
    /\ \/ readEnd = "closed"
       \/ pipe = <<>> /\ child = "exited"

\* ---------------------------------------------------- version-echo goroutine
\* for scanner.Scan() { ... }
echo_Scan ==
    /\ prog = "running"
    /\ echoPc = "scan"
    /\ \/ ScanTrue /\ echoPc' = "Println"
       \/ ScanFalse /\ echoPc' = "done" /\ UNCHANGED <<scanBuf, cur, pipe>>
    /\ UNCHANGED <<cfg, libVars, prog, exitStatus, mainVars, wgDrain, childVars,
                   readEnd, drainPc, sink, fatalLogs, stdout, shutVars, hist>>

\* fmt.Println(scanner.Text()); break
echo_Println ==
    /\ prog = "running"
    /\ echoPc = "Println"
    /\ stdout' = Append(stdout, cur)
    /\ echoPc' = "done"
    /\ UNCHANGED <<cfg, libVars, prog, exitStatus, mainVars, wgDrain, childVars, pipe,
                   readEnd, scanBuf, cur, drainPc, sink, fatalLogs, shutVars,
                   hist>>

\* ------------------------------------------------------ parseLndLog goroutine
\* for scan.Scan(): a line was scanned
parseLndLog_Scan ==
    /\ prog = "running"
    /\ drainPc = "scan"
    /\ ScanTrue
    /\ drainPc' = "select"
    /\ hist' = [hist EXCEPT
          !.readsAfterFired = IF fired THEN @ + 1 ELSE @,
          !.curAfterFired = fired]
    /\ UNCHANGED <<cfg, libVars, prog, exitStatus, mainVars, wgDrain, childVars,
                   readEnd, sink, fatalLogs, echoVars, shutVars>>

\* for scan.Scan(): Scan returned false, the loop ends, deferred wg.Done()
parseLndLog_ScanEnd ==
    /\ prog = "running"
    /\ drainPc = "scan"
    /\ ScanFalse
    /\ drainPc' = "done"
    /\ wgDrain' = wgDrain - 1
    /\ UNCHANGED <<cfg, libVars, prog, exitStatus, mainVars, childVars, pipe, readEnd,
                   scanBuf, cur, sink, fatalLogs, echoVars, shutVars, hist>>

\* select: case <-shutdownChan: return (and the deferred wg.Done())
parseLndLog_selectShutdownKills ==
    /\ prog = "running"
    /\ drainPc = "select"
    /\ SelectShutdown(fired) = "return"
    /\ shutdownState' = ChanRecv(shutdownState)
    /\ drainPc' = "done"
    /\ wgDrain' = wgDrain - 1
    /\ hist' = [hist EXCEPT !.lastCheckFired = fired]
    /\ child' = IF child = "running" THEN "exited" ELSE child
    /\ UNCHANGED <<cfg, libVars, prog, exitStatus, mainVars, childStatus,
                   written, pipe, readEnd, scanBuf, cur, sink, fatalLogs,
                   echoVars, reqCalls, fireCount>>

parseLndLog_selectShutdown ==
    /\ prog = "running"
    /\ drainPc = "select"
    /\ SelectShutdown(fired) = "return"
    /\ shutdownState' = ChanRecv(shutdownState)
    /\ drainPc' = "done"
    /\ wgDrain' = wgDrain - 1
    /\ hist' = [hist EXCEPT !.lastCheckFired = fired]
    /\ UNCHANGED <<cfg, libVars, prog, exitStatus, mainVars, childVars, pipe, readEnd,
                   scanBuf, cur, sink, fatalLogs, echoVars, reqCalls,
                   fireCount>>

\* select: default
parseLndLog_selectDefault ==
    /\ prog = "running"
    /\ drainPc = "select"
    /\ SelectShutdown(fired) = "default"
    /\ drainPc' = "default"
    /\ hist' = [hist EXCEPT !.lastCheckFired = fired]
    /\ UNCHANGED <<cfg, libVars, prog, exitStatus, mainVars, wgDrain, childVars, pipe,
                   readEnd, scanBuf, cur, sink, fatalLogs, echoVars, shutVars>>

\* default branch: match the line, `continue` on no match, otherwise forward
\* the record at the level of the switch; a Fatal() event exits the process
parseLndLog_default ==
    /\ prog = "running"
    /\ drainPc = "default"
    /\ LET captures == lndLogRegex(cur) IN
          IF Len(captures) = 0
          THEN /\ drainPc' = "scan"
               /\ hist' = [hist EXCEPT !.processed = Append(@, cur)]
               /\ UNCHANGED <<sink, prog, exitStatus>>
          ELSE /\ sink' = Append(sink, Record(captures))
               /\ hist' = [hist EXCEPT
                     !.processed = Append(@, cur),
                     !.fwdLines = Append(@, cur),
                     !.fwdAfterShutdown = IF fired THEN @ + 1 ELSE @,
                     !.fwdAfterReturn = IF mainPc = "returned" THEN @ + 1 ELSE @,
                     !.exitBy = IF FatalExits(Record(captures).level)
                                THEN "parseLndLog" ELSE @]
               /\ IF FatalExits(Record(captures).level)
                  THEN prog' = "exited" /\ exitStatus' = 1 /\ UNCHANGED drainPc
                  ELSE drainPc' = "scan" /\ UNCHANGED <<prog, exitStatus>>
    /\ UNCHANGED <<cfg, libVars, mainVars, wgDrain, childVars, pipe, readEnd, scanBuf,
                   cur, fatalLogs, echoVars, shutVars>>

\* ------------------------------------------------------------ child process
\* the child prints one line on its standard output
child_Write ==
    /\ child = "running"
    /\ prog = "running"
    /\ readEnd = "open"
    /\ written < MaxLines
    /\ \E l \in ChildLines :
          /\ pipe' = Append(pipe, l)
          /\ hist' = [hist EXCEPT !.wrote = Append(@, l)]
    /\ written' = written + 1
    /\ UNCHANGED <<cfg, libVars, prog, exitStatus, mainVars, wgDrain, child,
                   childStatus, readEnd, scanBuf, cur, drainPc, sink,
                   fatalLogs, echoVars, shutVars>>

\* the child exits, with status 0 or with a failure status
child_Exit ==
    /\ child = "running"
    /\ \E st \in {0, 1} : childStatus' = st
    /\ child' = "exited"
    /\ hist' = [hist EXCEPT !.exitAfterShutdown = IF fired THEN "yes" ELSE "no"]
    /\ UNCHANGED <<cfg, libVars, prog, exitStatus, mainVars, wgDrain, written, pipe,
                   readEnd, scanBuf, cur, drainPc, sink, fatalLogs, echoVars,
                   shutVars>>

\* ------------------------------------------------------------ specification
Next ==
    \/ RequestShutdown
    \/ Main
    \/ startLnd_LookPath
    \/ startLnd_StdoutPipe
    \/ startLnd_goParseLndLog
    \/ startLnd_cmdStart
    \/ startLnd_cmdWait
    \/ Main_ShutdownChannel
    \/ Main_wgWait
    \/ main
    \/ startLnd_versionStdoutPipe
    \/ startLnd_versionGo
    \/ startLnd_versionStart
    \/ startLnd_versionWait
    \/ echo_Scan
    \/ echo_Println
    \/ parseLndLog_Scan
    \/ parseLndLog_ScanEnd
    \/ parseLndLog_selectShutdown
    \/ parseLndLog_selectDefault
    \/ parseLndLog_default
    \/ child_Write
    \/ child_Exit

Spec == Init /\ [][Next]_vars

\* =============================================================== core/log.go
\* a record reaches each writer behind the logger it was written through
Deliver(l, writers, rec) ==
    [l EXCEPT !.file = IF "file" \in writers THEN Append(@, rec) ELSE @,
              !.console = IF "console" \in writers THEN Append(@, rec) ELSE @]

\* InitLogger(config): open the log file, build the logger on its writers
InitLogger ==
    /\ logw.logger = "none"
    /\ logw' = IF logw.openFile = "err"
               THEN [logw EXCEPT !.logger = "err"]
               ELSE [logw EXCEPT !.logger = "built",
                                 !.writers = LoggerWriters(logw.ConsoleOutput)]
    /\ UNCHANGED <<supVars, conf, uniq, tagc>>

\* NewSubLogger(l, subsystem): l.With().Str("subsystem", subsystem).Logger(),
\* a logger on the writers of l
NewSubLogger ==
    /\ logw.logger = "built"
    /\ logw.alive
    /\ \E subsystem \in Subsystems \ DOMAIN logw.subs :
          logw' = [logw EXCEPT !.subs = (subsystem :> logw.writers) @@ @]
    /\ UNCHANGED <<supVars, conf, uniq, tagc>>

\* subLogger.LogWithErrors(level, msg)
LogWithErrors ==
    /\ logw.alive
    /\ Len(logw.calls) < MaxLogCalls
    /\ \E s \in DOMAIN logw.subs, level \in LevelNames, msg \in Msgs :
          LET ok == level \in DOMAIN log_level
              rec == IF ok
                     THEN [level |-> log_level[level], subsystem |-> s,
                           message |-> <<msg>>]
                     ELSE [level |-> "error", subsystem |-> s,
                           message |-> <<"Log level ", level, " not found.">>]
              err == IF ok THEN <<>>
                     ELSE <<"log: Log level ", level, " not found.">>
              ends == ok /\ WithLevelEnds(log_level[level])
          IN logw' = [Deliver(logw, logw.subs[s], rec) EXCEPT
                         !.calls = Append(@, [via |-> s, level |-> level,
                                              msg |-> msg, err |-> err,
                                              rec |-> rec, alive |-> ~ends]),
                         !.alive = ~ends]
    /\ UNCHANGED <<supVars, conf, uniq, tagc>>

\* a record written through a level method of the logger InitLogger built,
\* log.Info().Msg(...) and the like; a Fatal() event exits the process
Logger_Msg ==
    /\ logw.logger = "built"
    /\ logw.alive
    /\ Len(logw.calls) < MaxLogCalls
    /\ \E lvl \in MethodLevels, msg \in Msgs :
          LET rec == [level |-> lvl, subsystem |-> "", message |-> <<msg>>]
          IN logw' = [Deliver(logw, logw.writers, rec) EXCEPT
                         !.calls = Append(@, [via |-> "", level |-> lvl,
                                              msg |-> msg, err |-> <<>>,
                                              rec |-> rec,
                                              alive |-> ~FatalExits(lvl)]),
                         !.alive = ~FatalExits(lvl)]
    /\ UNCHANGED <<supVars, conf, uniq, tagc>>

InitLog ==
    /\ InitSupervisor
    /\ logw \in {LogStart(c, o) : c \in BOOLEAN, o \in {"ok", "err"}}
    /\ conf = ConfIdle
    /\ uniq = UniqIdle
    /\ tagc = TagIdle

NextLog ==
    \/ InitLogger
    \/ NewSubLogger
    \/ LogWithErrors
    \/ Logger_Msg

SpecLog == InitLog /\ [][NextLog]_vars

\* ============================================================ core/config.go
\* InitConfig(isTesting)
InitConfig ==
    /\ conf.pc = "InitConfig"
    /\ \E mkdir \in {"ok", "err"} :
          LET dir == IF FileExists(Stat(conf.dir)) THEN conf.dir
                     ELSE IF mkdir = "ok" THEN "present" ELSE conf.dir
              config == IF ~FileExists(Stat(conf.file)) THEN default_config
                        ELSE IF conf.file = "malformed" THEN default_config
                        ELSE check_yaml_config(Unmarshal(conf.doc, ZeroConfig))
              parsed == flagsParse(conf.args, config)
          IN conf' =
               IF FileExists(Stat(conf.file)) /\ ReadFileFails(conf.file)
               THEN [conf EXCEPT !.pc = "returned", !.dir = dir,
                                 !.config = default_config, !.isNil = FALSE,
                                 !.err = "nil"]
               ELSE IF conf.isTesting
               THEN [conf EXCEPT !.pc = "returned", !.dir = dir,
                                 !.config = config, !.isNil = FALSE,
                                 !.err = "nil"]
               ELSE IF conf.args = "unknown"
               THEN [conf EXCEPT !.pc = "returned", !.dir = dir,
                                 !.err = "flags"]
               ELSE IF parsed.ShowVersion
               THEN [conf EXCEPT !.pc = "exited", !.dir = dir, !.exit = 0]
               ELSE [conf EXCEPT !.pc = "returned", !.dir = dir,
                                 !.config = parsed, !.isNil = FALSE,
                                 !.err = "nil"]
    /\ UNCHANGED <<supVars, logw, uniq, tagc>>

\* the default directory and its config.yaml before the call, and the call
ConfStarts ==
    {ConfStart("absent", "absent", <<>>, t, a) :
        t \in BOOLEAN, a \in FlagArgs}
    \cup {ConfStart("present", f, <<>>, t, a) :
        f \in {"absent", "denied", "unreadable", "malformed"},
        t \in BOOLEAN, a \in FlagArgs}
    \cup {ConfStart("present", "parsed", d, t, a) :
        d \in YamlDocs, t \in BOOLEAN, a \in FlagArgs}

InitConf ==
    /\ InitSupervisor
    /\ conf \in ConfStarts
    /\ logw = LogIdle
    /\ uniq = UniqIdle
    /\ tagc = TagIdle

NextConf == InitConfig

SpecConf == InitConf /\ [][NextConf]_vars

\* ========================================================= utils/general.go
\* UniqueFileName: `for FileExists(path)`, one round of the loop
UniqueFileName_loop ==
    /\ uniq.pc = "loop"
    /\ uniq.counter <= MaxRounds
    /\ FileExists(StatPath(uniq, uniq.path))
    /\ uniq' = [uniq EXCEPT !.path = NextPath(@, uniq.counter),
                            !.counter = @ + 1]
    /\ UNCHANGED <<supVars, logw, conf, tagc>>

\* UniqueFileName: FileExists(path) is false, `return path`
UniqueFileName_return ==
    /\ uniq.pc = "loop"
    /\ ~FileExists(StatPath(uniq, uniq.path))
    /\ uniq' = [uniq EXCEPT !.pc = "returned"]
    /\ UNCHANGED <<supVars, logw, conf, tagc>>

\* a path, the files among it and its numbered names that exist, and whether
\* its directory can be searched
UniqStarts ==
    UNION {{UniqStart(p, e, d) :
                e \in SUBSET ({p} \cup {Numbered(p, k) : k \in 1..MaxFiles}),
                d \in BOOLEAN} : p \in UniquePaths}
    \cup {UniqStart(p, FirstNames(p, n), FALSE) :
                p \in UniquePaths, n \in LongRuns}

InitUniq ==
    /\ InitSupervisor
    /\ uniq \in UniqStarts
    /\ logw = LogIdle
    /\ conf = ConfIdle
    /\ tagc = TagIdle

NextUniq ==
    \/ UniqueFileName_loop
    \/ UniqueFileName_return

SpecUniq == InitUniq /\ [][NextUniq]_vars

\* ============================================== core/config.go, lnd arguments
\* Config.GetConfigTagValues()
GetConfigTagValues ==
    /\ tagc.pc = "call"
    /\ \E order \in KeyOrders(DOMAIN tagc.config[8]) :
          tagc' = [tagc EXCEPT !.pc = "returned", !.order = order,
                               !.tags = TagsFrom(1, tagc.config, order)]
    /\ UNCHANGED <<supVars, logw, conf, uniq>>

InitTags ==
    /\ InitSupervisor
    /\ tagc \in {TagStart(c) : c \in Configs}
    /\ logw = LogIdle
    /\ conf = ConfIdle
    /\ uniq = UniqIdle

NextTags == GetConfigTagValues

SpecTags == InitTags /\ [][NextTags]_vars



\* =================================================================== claims
\* the drain goroutine has been started and has not returned
DrainRunning == drainPc \in {"scan", "select", "default"}

\* C1: Main never returns while the drain loop is still running, so no
\* record is forwarded to the sink after Main has returned.
C1_MainReturnsAfterDrainLoop ==
    (prog = "running" /\ mainPc = "returned")
        => (~DrainRunning /\ hist.fwdAfterReturn = 0)

\* C2: cmd.Wait is only in progress once the drain loop has stopped reading
\* the child's stdout.
C2_WaitOnlyAfterDrainStopped ==
    (prog = "running" /\ mainPc = "cmdWait") => ~DrainRunning

\* C3: startLnd returns to Main while the long-running child is still
\* running.
C3_StartReturnsWhileChildRuns ==
    startRet = "nil" => hist.childAtStartReturn = "running"

\* C4: N >= 1 calls of RequestShutdown fire the notification exactly once,
\* no call blocks, and every waiter (Main at line 104, the select of the
\* drain loop) finds the fired notification ready.
C4_ShutdownFiresOnce ==
    /\ fireCount <= 1
    /\ (reqCalls >= 1) <=> (fired /\ fireCount = 1)
    /\ (prog = "running" /\ reqCalls < MaxRequests) => ENABLED RequestShutdown
    /\ (prog = "running" /\ fired /\ mainPc = "ShutdownChannel")
          => ENABLED Main_ShutdownChannel
    /\ (prog = "running" /\ fired /\ drainPc = "select")
          => (ENABLED parseLndLog_selectShutdown
              /\ ~ENABLED parseLndLog_selectDefault)

C4_Witness ==
    /\ reqCalls = MaxRequests
    /\ fireCount = 1
    /\ mainPc = "wgWait"
    /\ hist.lastCheckFired
    /\ drainPc = "done"

\* a reader has already observed the notification as fired
ObservedFired ==
    \/ ~cfg.LndShowVersion /\ mainPc \in {"wgWait", "returned"}
    \/ hist.lastCheckFired

\* C5: once fired the notification stays fired; a read does not consume it,
\* so it is still fired after a reader has observed it.
C5_FiredStaysFired ==
    /\ [](ObservedFired => fired)
    /\ [][fired => fired']_vars

C5_Witness ==
    /\ ~cfg.LndShowVersion
    /\ mainPc = "returned"
    /\ mainRet = "nil"
    /\ hist.lastCheckFired
    /\ fired

\* C6: after RequestShutdown the drain loop forwards no further record, in
\* every interleaving.
C6_NoForwardAfterRequest == hist.fwdAfterShutdown = 0

\* C6 (amended): after RequestShutdown the drain loop forwards at most one
\* further record, that of a line which had already passed the shutdown
\* check; a line whose check finds the notification fired is discarded.
C6_AtMostOneForwardAfterRequest ==
    /\ hist.fwdAfterShutdown <= 1
    /\ drainPc = "default" => ~hist.lastCheckFired

C6_Witness ==
    /\ hist.fwdAfterShutdown = 1
    /\ hist.lastCheckFired
    /\ drainPc = "done"

\* C7: the drain loop never starts a new read of the child's stdout in a
\* state where shutdown has already been requested.
C7_NoReadStartedAfterRequest ==
    [][(drainPc # "scan" /\ drainPc' = "scan" /\ scanBuf' = <<>>) => ~fired']_vars

\* C7 (amended): each time a read returns a line the loop checks the
\* notification before processing the line, and a check that finds it fired
\* makes the loop return without another read; a read can still start with
\* shutdown requested when the request came after the last check or before
\* the first read.
C7_ReturnsAtFiredCheck ==
    hist.lastCheckFired => (drainPc = "done" /\ wgDrain = 0)

C7_Witness ==
    /\ hist.lastCheckFired
    /\ drainPc = "done"
    /\ (pipe # <<>> \/ scanBuf # <<>>)

\* C8: if the child exits, with any status, after shutdown was requested,
\* Main reports no failure: it returns nil and the program exits with 0.
C8_ExitAfterShutdownIsSuccess ==
    (~cfg.LndShowVersion /\ hist.exitAfterShutdown = "yes"
        /\ hist.waitResult # "none")
        => /\ hist.waitResult = "nil"
           /\ fatalLogs = 0
           /\ (hist.exitBy = "main" => (mainRet = "nil" /\ exitStatus = 0))

\* C9: if the supervised child exits, with any status, and no shutdown was
\* requested, Main returns a non-nil error instead of waiting on or
\* returning success.
C9_UnexpectedExitIsFatal ==
    (~cfg.LndShowVersion /\ hist.exitAfterShutdown = "no"
        /\ hist.waitResult # "none")
        => /\ mainPc \notin {"ShutdownChannel", "wgWait"}
           /\ mainRet # "nil"

\* C10: when lnd is not on the search path startLnd returns ErrLndNotFound,
\* Main returns a non-nil error, and nothing is spawned or drained.
C10_NotFoundIsReturned ==
    (hist.lookPath = "notfound" /\ prog = "exited")
        => /\ startRet = ErrLndNotFound
           /\ mainRet = "err"
           /\ hist.spawns = 0
           /\ hist.drainStarts = 0


\* a startup failure of startLnd: locate, pipe creation or process start
StartupFailed == hist.fatal \in {"notfound", "pipe", "start"}

\* C11: a fatal startup condition ends the run with a failure outcome without
\* a drain loop goroutine ever being started or a record forwarded.
C11_StartupFailureBypassesSupervising ==
    (StartupFailed /\ prog = "exited")
        => /\ exitStatus # 0
           /\ hist.drainStarts = 0
           /\ sink = <<>>

\* C12: whenever startLnd ends with an error other than ErrLndVersion, no
\* child process is left running.
C12_NoChildLeftAfterError ==
    (hist.fatal # "none" \/ startRet \notin {"none", "nil", ErrLndVersion})
        => child # "running"

C12_Witness ==
    /\ hist.fatal = "wait"
    /\ hist.spawns = 1
    /\ child = "exited"
    /\ prog = "exited"

\* positions of the main goroutine on the supervision path
SupervisionPcs ==
    {"stdoutPipe", "goParseLndLog", "cmdStart", "cmdWait", "ShutdownChannel",
     "wgWait"}

\* C13: a version query whose child exits successfully makes startLnd return
\* ErrLndVersion and Main return nil (exit status 0), with no drain loop, no
\* long-running child and no wait on the shutdown notification.
C13_VersionQueryEndsRun ==
    /\ cfg.LndShowVersion
          => /\ hist.drainStarts = 0
             /\ drainPc = "none"
             /\ hist.starts <= 1
             /\ mainPc \notin SupervisionPcs
    /\ (cfg.LndShowVersion /\ hist.waitResult = "nil")
          => /\ startRet = ErrLndVersion
             /\ mainRet = "nil"
             /\ mainPc = "returned"
             /\ (prog = "exited" => exitStatus = 0)

C13_Witness ==
    /\ cfg.LndShowVersion
    /\ startRet = ErrLndVersion
    /\ childStatus = 0
    /\ prog = "exited"
    /\ exitStatus = 0

\* C14: when startLnd returns ErrLndVersion for a child that printed at least
\* one line, exactly the child's first line has been echoed to stdout.
C14_VersionLineEchoed ==
    (startRet = ErrLndVersion /\ hist.wrote # <<>>)
        => stdout = <<hist.wrote[1]>>

\* the grammar of 4.3: date, time, bracketed level code from the table,
\* subsystem, non-empty text
Conforms(line) ==
    /\ line.shape = "log"
    /\ line.lvl \in {"TRC", "DBG", "INF", "WRN", "ERR", "CRT"}
    /\ line.text # ""

\* the fixed level table of 4.3
SeverityTable(code) ==
    CASE code = "TRC" -> "trace"
      [] code = "DBG" -> "debug"
      [] code = "INF" -> "info"
      [] code = "WRN" -> "warn"
      [] code = "ERR" -> "error"
      [] code = "CRT" -> "fatal"

\* C15: each conforming line processed by the drain loop produces a record
\* whose severity follows the table, whose subsystem and message are the
\* captured substrings and whose process origin is "LND".
C15_LevelMapping ==
    /\ hist.fwdLines = SelectSeq(hist.processed, Conforms)
    /\ Len(sink) = Len(hist.fwdLines)
    /\ \A i \in 1..Len(sink) :
          sink[i] = [process |-> "LND",
                     level |-> SeverityTable(hist.fwdLines[i].lvl),
                     subsystem |-> hist.fwdLines[i].sub,
                     message |-> hist.fwdLines[i].text]

C15_Witness ==
    /\ Len(sink) = 2
    /\ sink[1].level = "warn"
    /\ sink[2].level = "fatal"
    /\ sink[2].subsystem = "LTND"

\* number of conforming lines among the first j of a sequence
CountConforming(seq, j) == Cardinality({i \in 1..j : Conforms(seq[i])})

C17_UnknownLevelNeverLogged ==
    /\ \A i \in 1..Len(sink) : sink[i].message # "Unkown LND log level"
    /\ \A i \in 1..Len(hist.fwdLines) :
          hist.fwdLines[i].lvl \in {"TRC", "DBG", "INF", "WRN", "ERR", "CRT"}

C17_Witness ==
    /\ Len(hist.processed) = 1
    /\ hist.processed[1] = LogLine("XXX", "RPCS", "odd")
    /\ drainPc = "scan"
    /\ sink = <<>>

IsPrefix(a, b) == Len(a) <= Len(b) /\ a = SubSeq(b, 1, Len(a))

Matches(line) == lndLogRegex(line) # <<>>

\* the records of the matching lines of a sequence, in order
RecordsOf(seq) ==
    LET m == SelectSeq(seq, Matches)
    IN [i \in 1..Len(m) |-> Record(lndLogRegex(m[i]))]

\* C18: the records forwarded are, in order and one per line, those of the
\* matching lines the loop consumed and processed; the processed lines are
\* the child's lines in the order written, none skipped.
C18_RecordsInLineOrder ==
    /\ IsPrefix(hist.processed, hist.wrote)
    /\ sink = RecordsOf(hist.processed)

C18_Witness ==
    /\ Len(hist.processed) = 2
    /\ Len(sink) = 2
    /\ sink[1] # sink[2]
    /\ drainPc = "scan"

\* C19: every fatal condition is returned by Main to the entry point, logged
\* exactly once, and makes the program exit with a non-zero status.
C19_FatalReturnedLoggedOnce ==
    (hist.fatal # "none" /\ prog = "exited")
        => /\ mainRet = "err"
           /\ fatalLogs = 1
           /\ exitStatus # 0

\* C20: in one run the child is started at most once, a failed locate, pipe
\* creation or start is not retried, and at most one process is live.
C20_SpawnedAtMostOnce ==
    /\ hist.starts <= 1
    /\ hist.spawns <= hist.starts
    /\ child = "running" => hist.spawns = 1
    /\ StartupFailed => (prog = "exited" /\ child = "none")

C20_Witness ==
    /\ hist.fatal = "start"
    /\ hist.starts = 1
    /\ hist.spawns = 0
    /\ prog = "exited"

\* C21: on the supervision path Main returns nil only once the shutdown
\* notification has fired, never before shutdown was requested.
C21_SuccessOnlyAfterShutdown ==
    (~cfg.LndShowVersion /\ mainRet = "nil") => (fired /\ reqCalls >= 1)

C21_Witness ==
    /\ ~cfg.LndShowVersion
    /\ mainRet = "nil"
    /\ prog = "running"
    /\ fired
    /\ child = "exited"
    /\ childStatus = 0

\* C22: when shutdown was requested and the child has then closed its output
\* and exited, the run ends with Main having returned control to its caller.
C22_ShutdownThenExitReturnsMain ==
    (prog = "exited" /\ ~cfg.LndShowVersion /\ hist.exitAfterShutdown = "yes")
        => mainPc = "returned"

\* C23: a call of RequestShutdown changes nothing but the notification (the
\* child's state, the program's liveness and every goroutine's position stay
\* as they are), and the step in which the child ends is never a step of the
\* supervisor.
C23_RequestOnlyNotifies ==
    [][/\ (reqCalls' # reqCalls)
            => UNCHANGED <<child, childStatus, prog, exitStatus, mainPc,
                           drainPc, echoPc>>
       /\ (child = "running" /\ child' # "running")
            => UNCHANGED <<prog, exitStatus, mainVars, drainPc, echoPc,
                           wgDrain, shutVars>>]_vars

C23_Witness ==
    /\ fired
    /\ hist.lastCheckFired
    /\ drainPc = "done"
    /\ child = "running"
    /\ prog = "running"
    /\ mainPc = "cmdWait"

\* the level table of the claim and the level of the record it expects
KnownLevels == {"INFO", "PANIC", "FATAL", "ERROR", "DEBUG", "TRACE"}

LevelOf(name) ==
    CASE name = "INFO" -> "info"
      [] name = "PANIC" -> "panic"
      [] name = "FATAL" -> "fatal"
      [] name = "ERROR" -> "error"
      [] name = "DEBUG" -> "debug"
      [] name = "TRACE" -> "trace"

\* C24: LogWithErrors returns an error exactly for a level outside the table
\* {INFO, PANIC, FATAL, ERROR, DEBUG, TRACE}; for a level of the table,
\* FATAL and PANIC included, it writes one record at that level with the
\* message, returns nil and the program goes on; for any other level it
\* writes one error-level record.
C24_LogWithErrors ==
    /\ Len(logw.file) = Len(logw.calls)
    /\ \A i \in 1..Len(logw.calls) :
          LET c == logw.calls[i] IN
          c.via # "" =>
             /\ (c.err # <<>>) <=> (c.level \notin KnownLevels)
             /\ c.level \in KnownLevels
                   => /\ logw.file[i] = [level |-> LevelOf(c.level),
                                         subsystem |-> c.via,
                                         message |-> <<c.msg>>]
                      /\ c.alive
             /\ c.level \notin KnownLevels
                   => /\ logw.file[i].level = "error"
                      /\ logw.file[i].subsystem = c.via

C24_Witness ==
    /\ Len(logw.calls) = 2
    /\ logw.calls[1].via = "TEST"
    /\ logw.calls[1].level = "FATAL"
    /\ logw.calls[2].via = "TEST"
    /\ logw.calls[2].level = "WARN"
    /\ logw.alive

\* the records written so far through the logger and its sub-loggers
Written == [i \in 1..Len(logw.calls) |-> logw.calls[i].rec]

\* C25: every record written through the logger InitLogger built or through
\* a sub-logger of it reaches the log file, and reaches the console exactly
\* when config.ConsoleOutput is true.
C25_FileAlwaysConsoleIfAsked ==
    /\ logw.file = Written
    /\ logw.console = IF logw.ConsoleOutput THEN Written ELSE <<>>

C25_Witness ==
    /\ ~logw.ConsoleOutput
    /\ Len(logw.file) = 2
    /\ logw.calls[1].via = ""
    /\ logw.calls[2].via = "LND"
    /\ logw.console = <<>>

\* C26: without a config.yaml in the default directory InitConfig(true)
\* returns, with a nil error, {DefaultDir: true, ConduitDir: default_dir(),
\* ConsoleOutput: true} and every other field zero.
C26_NoYamlGivesDefault ==
    (conf.pc = "returned" /\ conf.file = "absent" /\ conf.isTesting)
        => /\ conf.err = "nil"
           /\ ~conf.isNil
           /\ conf.config = [DefaultDir |-> TRUE, ConduitDir |-> default_dir,
                             ConsoleOutput |-> TRUE, ShowVersion |-> FALSE,
                             LndShowVersion |-> FALSE, LndDataDir |-> ""]

C26_Witness ==
    /\ conf.pc = "returned"
    /\ conf.file = "absent"
    /\ conf.isTesting
    /\ conf.dir = "present"
    /\ conf.config.ConsoleOutput

\* C27: with a config.yaml that parses and has no ConduitDir, InitConfig
\* returns ConduitDir = default_dir() and DefaultDir = true, every other
\* field at the value the file gives it, or zero when the file has none, and
\* the keys that name no field change nothing.
C27_YamlWithoutDir ==
    (/\ conf.pc = "returned"
     /\ conf.file = "parsed"
     /\ "ConduitDir" \notin DOMAIN conf.doc
     /\ conf.isTesting \/ conf.args = "none")
        => /\ conf.err = "nil"
           /\ conf.config.ConduitDir = default_dir
           /\ conf.config.DefaultDir = TRUE
           /\ \A field \in DOMAIN conf.config \ {"ConduitDir", "DefaultDir"} :
                 conf.config[field] =
                    IF YamlKey(field) \in DOMAIN conf.doc
                    THEN conf.doc[YamlKey(field)]
                    ELSE ZeroConfig[field]

C27_Witness ==
    /\ conf.pc = "returned"
    /\ conf.file = "parsed"
    /\ DOMAIN conf.doc = {"DefaultDir", "ConsoleOutput", "LogFileDir"}
    /\ ~conf.doc["DefaultDir"]
    /\ ~conf.doc["ConsoleOutput"]
    /\ conf.config.DefaultDir
    /\ ~conf.config.ConsoleOutput

\* C28: UniqueFileName returns its argument when no file exists there, and
\* otherwise a path at which no file exists; the loop goes round at most
\* once for each existing file, so it ends.
C28_UniqueFileName ==
    /\ uniq.counter <= Cardinality(uniq.exists) + 1
    /\ uniq.arg \notin uniq.exists => uniq.path = uniq.arg
    /\ uniq.pc = "returned" => uniq.path \notin uniq.exists

\* C29: after the notification has fired the drain loop completes at most
\* one more Scan, and the line of that Scan is never matched or forwarded:
\* the loop can only return on it.
C29_OneReadThenReturn ==
    /\ hist.readsAfterFired <= 1
    /\ hist.curAfterFired => drainPc \in {"select", "done"}
    /\ (hist.curAfterFired /\ drainPc = "select" /\ prog = "running")
          => (ENABLED parseLndLog_selectShutdown
              /\ ~ENABLED parseLndLog_selectDefault)

C29_Witness ==
    /\ hist.readsAfterFired = 1
    /\ hist.curAfterFired
    /\ Matches(cur)
    /\ drainPc = "done"
    /\ hist.processed = <<>>
    /\ sink = <<>>

\* C30: forwarding the record of a conforming line, whatever its level,
\* leaves the program running and the drain loop at its next Scan.
C30_ForwardKeepsSupervising ==
    [][Len(sink') > Len(sink) => (prog' = "running" /\ drainPc' = "scan")]_vars

\* C31: whenever Main has returned, no child started by the run is still
\* running: the child that was started, for the version query or for the
\* long run, has been waited for.
C31_NoChildWhenMainReturned ==
    mainPc = "returned"
        => /\ child # "running"
           /\ hist.spawns >= 1 => hist.waitResult # "none"

C31_Witness ==
    /\ cfg.LndShowVersion
    /\ mainPc = "returned"
    /\ prog = "running"
    /\ child = "exited"
    /\ hist.spawns = 1
    /\ hist.waitResult = "nil"

\* C32: a run has at most one reader of the child's stdout: the drain loop or
\* the version-echo goroutine, never both, and the drain loop is started at
\* most once.
C32_OneReader ==
    /\ drainPc = "none" \/ echoPc = "none"
    /\ hist.drainStarts <= 1
    /\ cfg.LndShowVersion => drainPc = "none"
    /\ ~cfg.LndShowVersion => echoPc = "none"

C32_Witness ==
    /\ cfg.LndShowVersion
    /\ echoPc = "done"
    /\ Len(stdout) = 1
    /\ drainPc = "none"
    /\ mainPc = "returned"

\* C33: GetConfigTagValues returns, in the order of the struct fields, the
\* arguments of the fields named Lnd... other than LndShowVersion: one
\* --long=value for a non-empty string, --long for a true bool, one
\* --long=elem for each element of a slice and one --long=key:value for each
\* entry of a map; every other field and every zero value gives nothing, so
\* a configuration with no Lnd field set gives the empty list.
C33_OnlyLndFieldsInOrder ==
    tagc.pc = "returned" =>
        LET c == tagc.config
            path == IF c[4] # ""
                    THEN <<(<<"--", "configfile", "=", c[4]>>)>> ELSE <<>>
            sync == IF c[6] THEN <<(<<"--", "sync-freelist">>)>> ELSE <<>>
            ips == [j \in 1..Len(c[7]) |-> <<"--", "tlsextraip", "=", c[7][j]>>]
            heur == [j \in 1..Len(tagc.order) |->
                        <<"--", "autopilot.heuristic", "=", tagc.order[j],
                          ":", c[8][tagc.order[j]]>>]
        IN /\ tagc.tags = path \o sync \o ips \o heur
           /\ {tagc.order[j] : j \in 1..Len(tagc.order)} = DOMAIN c[8]
           /\ Len(tagc.order) = Cardinality(DOMAIN c[8])
           /\ (c[4] = "" /\ ~c[6] /\ Len(c[7]) = 0 /\ DOMAIN c[8] = {})
                 => tagc.tags = <<>>

C33_Witness ==
    /\ tagc.pc = "returned"
    /\ tagc.config[1]
    /\ tagc.config[5]
    /\ tagc.config[9]
    /\ Len(tagc.tags) = 6
    /\ tagc.order = <<"k2", "k1">>

\* C34: when a path exists together with its first k-1 numbered names and
\* the k-th does not, UniqueFileName returns stem + " (k)" + ext, and every
\* candidate it tries is the stem, " (n)" and the extension, for each n up to
\* and beyond 100.
C34_ReturnsNextNumbered ==
    ~uniq.denied =>
        /\ uniq.counter > 1 => uniq.path = Numbered(uniq.arg, uniq.counter - 1)
        /\ \A k \in 1..MaxRounds :
              (/\ uniq.pc = "returned"
               /\ FirstNames(uniq.arg, k - 1) \subseteq uniq.exists
               /\ Numbered(uniq.arg, k) \notin uniq.exists)
                  => uniq.path = Numbered(uniq.arg, k)

\* C35: a config.yaml that exists but cannot be read or parsed never makes
\* InitConfig fail: the call returns the default configuration with a nil
\* error, and an error or an exit can only come from the flags.
C35_BadYamlGivesDefault ==
    (conf.pc # "InitConfig"
     /\ conf.file \in {"denied", "unreadable", "malformed"})
        => /\ (conf.isTesting \/ conf.args = "none" \/ conf.file # "malformed")
                 => /\ conf.pc = "returned"
                    /\ conf.err = "nil"
                    /\ ~conf.isNil
                    /\ conf.config =
                          [DefaultDir |-> TRUE, ConduitDir |-> default_dir,
                           ConsoleOutput |-> TRUE, ShowVersion |-> FALSE,
                           LndShowVersion |-> FALSE, LndDataDir |-> ""]
           /\ (conf.pc = "returned" /\ conf.err # "nil")
                 => (~conf.isTesting /\ conf.args = "unknown")
           /\ conf.pc = "exited" => (~conf.isTesting /\ conf.args = "version")

C35_Witness ==
    /\ conf.pc = "returned"
    /\ conf.file = "malformed"
    /\ conf.isTesting
    /\ conf.err = "nil"
    /\ conf.config.ConduitDir = default_dir

\* C36: the drain loop's WaitGroup accounting is balanced on the counter
\* the goroutine holds: Add(1) came before the goroutine got it, so it reads
\* 1 while the loop runs; Done is called once, when the loop returns on
\* shutdown or on the end of the stream, and takes it to 0; no counter is
\* ever negative.
C36_WaitGroupBalanced ==
    /\ [](/\ wgMain >= 0
          /\ wgStart >= 0
          /\ wgDrain >= 0
          /\ DrainRunning => wgDrain = 1
          /\ drainPc \in {"none", "done"} => wgDrain = 0)
    /\ [][wgDrain' < wgDrain
            => (DrainRunning /\ drainPc' = "done" /\ wgDrain' = wgDrain - 1)]_vars

C36_Witness ==
    /\ drainPc = "done"
    /\ hist.lastCheckFired
    /\ hist.drainStarts = 1
    /\ wgDrain = 0
    /\ wgStart = 1
    /\ wgMain = 0

====
